---- MODULE Spec2Model ----
(***************************************************************************)
(* LiveRPC (react-liverpc): the server-side query / mutation executors,    *)
(* the invalidation fan-out of a mutation and the request dispatcher,      *)
(* modelled at the granularity of the awaits of the TypeScript source.     *)
(* One request is followed from its arrival to its response; the fan-out   *)
(* of a mutation keeps running after the response, as in the source where  *)
(* its Promise.all is not awaited.                                         *)
(***************************************************************************)
EXTENDS Integers, Sequences, FiniteSets, Bags, TLC

VARIABLES
    maxBatchSize,   \* options.socket.maxBatchSize after the constructor
    request,        \* the request being served: entry, path, key, params, withAuth
    hpc,            \* position of the caller / handleRequest
    response,       \* what handleRequest (or the direct call) produced
    top,            \* the executor run started for the request (query fn or mutation fn)
    targets,        \* per invalidation target: the state of its map callback
    tasks,          \* the invalidate / batchInvalidate runs started by the fan-out
    broadcastLog,   \* bag of socket.broadcast calls
    batchLog,       \* bag of socket.batchBroadcast calls
    naming,         \* two calls of getRpcChannelName side by side: inputs and results
    store,          \* the data the handlers work on: the number of mutations applied
    sessions,       \* two concurrent mutation requests: executor run, callback, invalidate run
    channelLog,     \* the socket.broadcast calls of the two requests in call order
    hook,           \* the state of one useLiveQuery: data, isLoading, error, subscription
    fetch,          \* the callRPC("query", key, params) promise of the hook's effect
    inbox           \* the "update" payloads published and not yet delivered to the hook

vars == <<maxBatchSize, request, hpc, response, top, targets, tasks,
          broadcastLog, batchLog, naming, store, sessions, channelLog,
          hook, fetch, inbox>>

\* the variables of the server that serves one request
serverVars == <<maxBatchSize, request, hpc, response, top, targets, tasks,
                broadcastLog, batchLog>>

\* the variables of the two concurrent mutation requests
raceVars == <<sessions, channelLog>>

\* the variables of the client hook
clientVars == <<hook, fetch, inbox>>

(***************************************************************************)
(* Bounds of the model.                                                    *)
(***************************************************************************)
\* longest list a computeTargetParams function returns
MaxList == 2

(***************************************************************************)
(* Parameter values.  A JavaScript value is a record of one shape:         *)
(* t is its type tag, n its number (for a number), kv its own enumerable   *)
(* properties in insertion order (for an object) or its elements keyed by  *)
(* index (for an array).                                                   *)
(***************************************************************************)
Undef == [t |-> "undefined", n |-> 0, kv |-> <<>>]
Null == [t |-> "null", n |-> 0, kv |-> <<>>]
Num(n) == [t |-> "number", n |-> n, kv |-> <<>>]
Obj(kv) == [t |-> "object", n |-> 0, kv |-> kv]
Arr(kv) == [t |-> "array", n |-> 0, kv |-> kv]
Prop(k, v) == [k |-> k, v |-> v]

\* the property names of the model in the order Array.prototype.sort() and
\* the property enumeration of a fresh object give them
KeyOrder == <<"0", "1", "2", "a", "b", "id", "x">>

OwnKeys(v) == {v.kv[i].k : i \in 1..Len(v.kv)}

Get(v, k) == LET i == CHOOSE j \in 1..Len(v.kv) : v.kv[j].k = k IN v.kv[i].v

IsObjectType(v) == v.t \in {"object", "array"}

\* a replacer that keeps the keys in insertion order
InsertionKeys(v) == [i \in 1..Len(v.kv) |-> v.kv[i].k]

\* Object.keys(value).sort() of the replacer
SortedKeys(v) == SelectSeq(KeyOrder, LAMBDA k : k \in OwnKeys(v))

RECURSIVE SerializeValue(_)
RECURSIVE SerializeProps(_, _)
\* JSON.stringify of a value the replacer has been applied to: objects and
\* arrays alike have been rebuilt as plain objects with sorted keys
SerializeValue(v) ==
    CASE v.t = "number" -> <<ToString(v.n)>>
      [] v.t = "null" -> <<"null">>
      [] IsObjectType(v) ->
            <<"{">> \o SerializeProps(v, SelectSeq(SortedKeys(v),
                          LAMBDA k : Get(v, k).t # "undefined")) \o <<"}">>
      [] OTHER -> <<>>
SerializeProps(v, ks) ==
    IF ks = <<>> THEN <<>>
    ELSE <<"\"", Head(ks), "\"", ":">> \o SerializeValue(Get(v, Head(ks)))
         \o (IF Len(ks) > 1 THEN <<",">> ELSE <<>>)
         \o SerializeProps(v, Tail(ks))

stableStringify(obj) ==
    IF obj.t \in {"undefined", "null"} THEN <<"{", "}">> ELSE SerializeValue(obj)

\* sha256(...).toString() is kept symbolic: the digest of a string is the
\* string itself, i.e. the hash is taken to be injective
sha256(s) == s

getRpcChannelName(query, params) ==
    <<"query_", query, "_">>
        \o sha256(stableStringify(IF params.t \in {"undefined", "null"}
                                  THEN Obj(<<>>) ELSE params))

(***************************************************************************)
(* The definition registry (RPCConfig) the model is run with, after the    *)
(* example of the README.  A schema is named by its kind; authorization    *)
(* says whether the definition has an authorization predicate;             *)
(* invalidateQueries gives every entry of the invalidation map: "absent"   *)
(* (no such key), "undefined" (a key without a function), "one" (a         *)
(* function that returns one parameter value) or "list" (a function that   *)
(* returns a list of parameter values).                                    *)
(***************************************************************************)
QueryNames == {"getPosts", "getPost"}
MutationNames == {"createPost", "deleteAllPosts", "touch", "ping"}

queries ==
    [q \in QueryNames |->
        IF q = "getPosts"
        THEN [params |-> "z.undefined", authorization |-> FALSE]
        ELSE [params |-> "z.object", authorization |-> TRUE]]

mutations ==
    [m \in MutationNames |->
        CASE m = "createPost" ->
                [params |-> "z.object", authorization |-> TRUE,
                 hasInvalidateQueries |-> TRUE,
                 invalidateQueries |-> [q \in QueryNames |-> "one"]]
          [] m = "deleteAllPosts" ->
                [params |-> "z.undefined", authorization |-> FALSE,
                 hasInvalidateQueries |-> TRUE,
                 invalidateQueries |->
                    [q \in QueryNames |->
                        IF q = "getPost" THEN "list" ELSE "one"]]
          [] m = "touch" ->
                [params |-> "z.undefined", authorization |-> FALSE,
                 hasInvalidateQueries |-> TRUE,
                 invalidateQueries |->
                    [q \in QueryNames |->
                        IF q = "getPosts" THEN "undefined" ELSE "absent"]]
          [] OTHER ->
                [params |-> "z.undefined", authorization |-> TRUE,
                 hasInvalidateQueries |-> FALSE,
                 invalidateQueries |-> [q \in QueryNames |-> "absent"]]]

\* the raw parameter values a caller or a computeTargetParams function supplies
IdObject == Obj(<<Prop("id", Num(1))>>)
IdObjectExtra == Obj(<<Prop("x", Num(1)), Prop("id", Num(1))>>)
RawParams == {Undef, IdObject, IdObjectExtra}

\* the parameter values the elements of a computed list are drawn from
ElementParams == {Undef, IdObject}

\* def.params.safeParse(params): z.undefined() accepts undefined only;
\* z.object({id}) accepts an object with a numeric id and strips other keys
safeParse(schema, params) ==
    IF schema = "z.undefined"
    THEN [success |-> params.t = "undefined", data |-> params]
    ELSE IF params.t = "object" /\ "id" \in OwnKeys(params)
            /\ Get(params, "id").t = "number"
         THEN [success |-> TRUE, data |-> Obj(<<Prop("id", Get(params, "id"))>>)]
         ELSE [success |-> FALSE, data |-> Undef]

(***************************************************************************)
(* Errors.  An HTTPException carries its status; an error thrown by a      *)
(* caller-supplied handler is rethrown as it is and carries none (0).      *)
(***************************************************************************)
NoError == [kind |-> "none", status |-> 0]
HTTPException(status, kind) == [kind |-> kind, status |-> status]
HandlerThrown == [kind |-> "handler", status |-> 0]

\* validateParams without the test of the parse result
validateParamsUnchecked(type, key, params) ==
    LET known == IF type = "query" THEN key \in QueryNames ELSE key \in MutationNames
        def == IF type = "query" THEN queries[key] ELSE mutations[key]
    IN  IF ~known
        THEN [ok |-> FALSE, data |-> Undef, error |-> HTTPException(400, "unknown")]
        ELSE [ok |-> TRUE, data |-> safeParse(def.params, params).data,
              error |-> NoError]

validateParams(type, key, params) ==
    LET known == IF type = "query" THEN key \in QueryNames ELSE key \in MutationNames
        def == IF type = "query" THEN queries[key] ELSE mutations[key]
    IN  IF ~known
        THEN [ok |-> FALSE, data |-> Undef, error |-> HTTPException(400, "unknown")]
        ELSE LET r == safeParse(def.params, params)
             IN  IF ~r.success
                 THEN [ok |-> FALSE, data |-> Undef,
                       error |-> HTTPException(400, "validation")]
                 ELSE [ok |-> TRUE, data |-> r.data, error |-> NoError]

(***************************************************************************)
(* One run of an executor function: the query fn ("execute"), fn.invalidate*)
(* ("invalidate"), fn.batchInvalidate ("batchInvalidate") or the mutation  *)
(* fn ("mutation").  pc is the await the run is suspended at.              *)
(***************************************************************************)
NoChannel == <<>>

NoRun ==
    [mode |-> "none", name |-> "", raw |-> Undef, parsed |-> Undef,
     withAuth |-> FALSE, pc |-> "none",
     authInvoked |-> FALSE, authOutcome |-> "none", handlerInvoked |-> FALSE,
     value |-> "none", returned |-> "none", channel |-> NoChannel,
     transport |-> "none", error |-> NoError]

HasAuthorization(mode, name) ==
    IF mode = "mutation" THEN mutations[name].authorization
    ELSE queries[name].authorization

\* an executor that consults the predicate in every mode
CallAlwaysAuthorized(mode, name, params, withAuth) ==
    LET v == validateParams(IF mode = "mutation" THEN "mutation" ELSE "query",
                            name, params)
        run == [NoRun EXCEPT !.mode = mode, !.name = name, !.raw = params,
                             !.withAuth = withAuth]
    IN  IF ~v.ok
        THEN [run EXCEPT !.pc = "failed", !.error = v.error]
        ELSE IF HasAuthorization(mode, name)
             THEN [run EXCEPT !.parsed = v.data, !.pc = "auth",
                              !.authInvoked = TRUE]
             ELSE [run EXCEPT !.parsed = v.data, !.pc = "handler",
                              !.handlerInvoked = TRUE]

\* the run up to its first suspension on caller-supplied code
Call(mode, name, params, withAuth) ==
    LET v == validateParams(IF mode = "mutation" THEN "mutation" ELSE "query",
                            name, params)
        run == [NoRun EXCEPT !.mode = mode, !.name = name, !.raw = params,
                             !.withAuth = withAuth]
    IN  IF ~v.ok
        THEN [run EXCEPT !.pc = "failed", !.error = v.error]
        ELSE IF mode \in {"execute", "mutation"} /\ withAuth
                /\ HasAuthorization(mode, name)
             THEN [run EXCEPT !.parsed = v.data, !.pc = "auth",
                              !.authInvoked = TRUE]
             ELSE [run EXCEPT !.parsed = v.data, !.pc = "handler",
                              !.handlerInvoked = TRUE]

AuthOutcomes == {"true", "false", "raise"}

\* the run resumed with the settled authorization promise
AfterAuthorization(run, outcome) ==
    IF outcome = "raise"
    THEN [run EXCEPT !.pc = "failed", !.authOutcome = outcome,
                     !.error = HTTPException(401, "unauthorized")]
    ELSE [run EXCEPT !.pc = "handler", !.authOutcome = outcome,
                     !.handlerInvoked = TRUE]

QueryResults == {"r1", "r2"}
MutationResults == {"m1", "null"}

ResultsOf(mode) == IF mode = "mutation" THEN MutationResults ELSE QueryResults

\* an invalidation that publishes whatever the handler did
AfterHandlerPublishAnyway(run, ok, result) ==
    CASE run.mode \in {"invalidate", "batchInvalidate"} ->
            [run EXCEPT !.pc = "broadcast",
                        !.value = IF ok THEN result ELSE "none",
                        !.channel = getRpcChannelName(run.name, run.parsed)]
      [] ~ok -> [run EXCEPT !.pc = "failed", !.error = HandlerThrown]
      [] run.mode = "execute" ->
            [run EXCEPT !.pc = "done", !.value = result, !.returned = result]
      [] OTHER -> [run EXCEPT !.pc = "handlerOk", !.value = result]

\* an invalidation that names its channel after the raw params
AfterHandlerRawChannel(run, ok, result) ==
    IF ~ok
    THEN [run EXCEPT !.pc = "failed", !.error = HandlerThrown]
    ELSE CASE run.mode = "execute" ->
                [run EXCEPT !.pc = "done", !.value = result, !.returned = result]
           [] run.mode = "mutation" ->
                [run EXCEPT !.pc = "handlerOk", !.value = result]
           [] OTHER ->
                [run EXCEPT !.pc = "broadcast", !.value = result,
                            !.channel = getRpcChannelName(run.name, run.raw)]

\* the run resumed with the settled handler promise (def.query / def.mutation)
AfterHandler(run, ok, result) ==
    IF ~ok
    THEN [run EXCEPT !.pc = "failed", !.error = HandlerThrown]
    ELSE CASE run.mode = "execute" ->
                [run EXCEPT !.pc = "done", !.value = result, !.returned = result]
           [] run.mode = "mutation" ->
                [run EXCEPT !.pc = "handlerOk", !.value = result]
           [] OTHER ->
                [run EXCEPT !.pc = "broadcast", !.value = result,
                            !.channel = getRpcChannelName(run.name, run.parsed)]

\* the socket.broadcast call a run makes when it reaches its broadcast await
BroadcastCall(id, run) ==
    [by |-> id, channel |-> run.channel, event |-> "update", data |-> run.value]

\* an invalidation that returns the result whatever the transport did
AfterBroadcastUnchecked(run, ok) ==
    [run EXCEPT !.pc = "done", !.returned = run.value,
                !.transport = IF ok THEN "ok" ELSE "failed"]

\* the run resumed with the settled socket.broadcast promise; transport
\* records how that promise settled
AfterBroadcast(run, ok) ==
    IF ~ok
    THEN [run EXCEPT !.pc = "failed", !.transport = "failed",
                     !.error = HTTPException(500, "broadcast")]
    ELSE [run EXCEPT !.pc = "done", !.transport = "ok",
                     !.returned = run.value]

Settled(run) == run.pc \in {"done", "failed"}

(***************************************************************************)
(* The invalidation fan-out of the mutation fn: one map callback per entry *)
(* of def.invalidateQueries, all under one Promise.all nobody awaits.      *)
(***************************************************************************)
NoTarget ==
    [pc |-> "none", fn |-> "absent", computeInvoked |-> FALSE,
     computed |-> "pending", isArray |-> FALSE,
     queryParams |-> <<>>, toBroadcast |-> <<>>, chunkState |-> <<>>,
     allSuccess |-> TRUE, allBroadcastSuccess |-> TRUE, error |-> NoError]

\* a callback that threw
Rejected(callback, error) == [callback EXCEPT !.pc = "rejected", !.error = error]

\* callbacks run as one sequence: the first throw ends the unfinished ones
ResumeFailFast(cbs, q, callback) ==
    [p \in QueryNames |->
        IF p = q THEN callback
        ELSE IF callback.pc = "rejected" /\ cbs[p].pc \notin {"none", "fulfilled", "rejected"}
             THEN Rejected(cbs[p], callback.error)
             ELSE cbs[p]]

\* every callback is an async function of its own: what one of them does
\* changes its own state and leaves the callbacks of the other entries alone
Resume(cbs, q, callback) == [cbs EXCEPT ![q] = callback]

\* Object.entries(def.invalidateQueries).map(async ...) up to the first await
\* of every callback
FanOutStart(def) ==
    [q \in QueryNames |->
        IF ~def.hasInvalidateQueries \/ def.invalidateQueries[q] = "absent"
        THEN NoTarget
        ELSE IF def.invalidateQueries[q] = "undefined"
             THEN [NoTarget EXCEPT !.pc = "fulfilled"]
             ELSE [NoTarget EXCEPT !.pc = "compute", !.computeInvoked = TRUE,
                                   !.fn = def.invalidateQueries[q]]]

\* a mutation fn that ends without returning the captured result
AfterFanOutStartNoResult(run) == [run EXCEPT !.pc = "done", !.returned = "undefined"]

\* a mutation fn that awaits the Promise.all of the fan-out before returning
AfterFanOutStartAwaited(run) == [run EXCEPT !.pc = "awaitFanOut"]

\* the position of the mutation fn once it has started the fan-out
AfterFanOutStart(run) == [run EXCEPT !.pc = "done", !.returned = run.value]

Started(callback) == callback.pc # "none"
Finished(callback) == callback.pc \in {"none", "fulfilled", "rejected"}

\* the state of Promise.all(...) over the callbacks; no handler is ever
\* attached to it, so its rejection is an unhandled rejection
FanOutPromise(cbs) ==
    IF \E q \in QueryNames : cbs[q].pc = "rejected" THEN "rejected"
    ELSE IF \A q \in QueryNames : Finished(cbs[q]) THEN "fulfilled"
    ELSE "pending"

\* the lists a computeTargetParams function may return
ParamLists == UNION {[1..n -> ElementParams] : n \in 0..MaxList}

\* the runs a callback starts once its parameters are computed
StartInvalidate(q, queryParams) == <<Call("invalidate", q, queryParams, FALSE)>>
StartBatchInvalidate(q, queryParams) ==
    [i \in 1..Len(queryParams) |-> Call("batchInvalidate", q, queryParams[i], FALSE)]

\* the element of broadcasts a settled batchInvalidate run is mapped to
BroadcastOutcome(run) ==
    IF run.pc = "failed"
    THEN [success |-> FALSE, channel |-> NoChannel, result |-> "null"]
    ELSE [success |-> TRUE, channel |-> run.channel, result |-> run.value]

BatchItem(b) == [channel |-> b.channel, name |-> "update", data |-> b.result]

\* the callback of the reduce: a first chunk is opened on the first element
\* and every element is pushed to the last chunk
ReduceStep(acc, b) ==
    LET opened == IF Len(acc) = 0 THEN <<<<>>>> ELSE acc
    IN  [opened EXCEPT ![Len(opened)] = Append(@, BatchItem(b))]

RECURSIVE Reduce(_, _)
Reduce(acc, bs) ==
    IF bs = <<>> THEN acc ELSE Reduce(ReduceStep(acc, Head(bs)), Tail(bs))

\* broadcasts.filter(...).reduce(...)
ToBroadcast(broadcasts) ==
    Reduce(<<>>, SelectSeq(broadcasts,
                           LAMBDA b : b.success /\ b.channel # NoChannel))

\* the end of the list branch: the two throws and the return
ListOutcome(callback) ==
    IF ~callback.allSuccess
    THEN Rejected(callback, HTTPException(500, "invalidateSome"))
    ELSE IF ~callback.allBroadcastSuccess
         THEN Rejected(callback, HTTPException(500, "broadcastSome"))
         ELSE [callback EXCEPT !.pc = "fulfilled"]

(***************************************************************************)
(* The request dispatcher.                                                 *)
(***************************************************************************)
Keys == QueryNames \cup MutationNames \cup {"unknownKey"}

NoResponse ==
    [kind |-> "none", status |-> 0, success |-> "absent", data |-> "none",
     channel |-> NoChannel, error |-> "none"]

\* an exception that reaches the framework without the status it was
\* thrown with
ThrowWithoutStatus(error) ==
    [NoResponse EXCEPT !.kind = "throw", !.status = 500, !.error = error.kind]

Throw(error) == [NoResponse EXCEPT !.kind = "throw", !.status = error.status,
                                   !.error = error.kind]

\* what handleRequest (entry "http") or the direct caller gets from the
\* settled executor run
ResponseOf(req, run) ==
    IF run.pc = "failed" THEN Throw(run.error)
    ELSE IF req.entry = "direct"
         THEN [NoResponse EXCEPT !.kind = "return", !.data = run.returned]
         ELSE IF req.path = "query"
              THEN [NoResponse EXCEPT !.kind = "json", !.status = 200,
                        !.data = run.returned, !.error = "null",
                        !.channel = getRpcChannelName(req.key, req.params)]
              ELSE [NoResponse EXCEPT !.kind = "json", !.status = 200,
                        !.success = "true", !.error = "null",
                        !.data = IF run.returned = "null" THEN "undefined"
                                 ELSE run.returned]

NoRequest ==
    [entry |-> "none", path |-> "none", key |-> "", params |-> Undef,
     withAuth |-> FALSE]

\* the value options.socket.maxBatchSize has when it is not supplied
DefaultMaxBatchSize == 10

\* the values the socket option is constructed with; 0 stands for "not
\* supplied"
SuppliedMaxBatchSizes == {0, 1}

\* no call of getRpcChannelName is being compared
NoNaming ==
    [pc |-> "none", query |-> "", p1 |-> Undef, p2 |-> Undef,
     s1 |-> <<>>, s2 |-> <<>>, c1 |-> NoChannel, c2 |-> NoChannel]

\* no mutation request is running in a session
NoSession == [name |-> "", run |-> NoRun, target |-> NoTarget, task |-> NoRun,
              read |-> 0]

Sessions == {1, 2}

\* the hook before it is mounted: useState(), useState(true), useState(null)
NoHook ==
    [mounted |-> FALSE, key |-> "", params |-> Undef, channel |-> NoChannel,
     subscribed |-> FALSE, data |-> "undefined", isLoading |-> TRUE,
     error |-> "null", dataFrom |-> "none", liveSeen |-> FALSE]

NoFetch == [pc |-> "none", response |-> NoResponse]

RaceIdle ==
    /\ sessions = [m \in Sessions |-> NoSession]
    /\ channelLog = <<>>

ClientIdle ==
    /\ hook = NoHook
    /\ fetch = NoFetch
    /\ inbox = <<>>

Init ==
    /\ naming = NoNaming
    /\ store = 0
    /\ RaceIdle
    /\ ClientIdle
    /\ \E b \in SuppliedMaxBatchSizes :
          maxBatchSize = IF b = 0 THEN DefaultMaxBatchSize ELSE b
    /\ request = NoRequest
    /\ hpc = "idle"
    /\ response = NoResponse
    /\ top = NoRun
    /\ targets = [q \in QueryNames |-> NoTarget]
    /\ tasks = [q \in QueryNames |-> <<>>]
    /\ broadcastLog = EmptyBag
    /\ batchLog = EmptyBag

\* handleRequest is entered with a request whose path has neither suffix
ReceiveOther ==
    /\ hpc = "idle"
    /\ \E key \in Keys, params \in RawParams :
          request' = [entry |-> "http", path |-> "other", key |-> key,
                      params |-> params, withAuth |-> TRUE]
    /\ hpc' = "responded"
    /\ response' = [NoResponse EXCEPT !.kind = "undefined"]
    /\ UNCHANGED <<naming, store, raceVars, clientVars, maxBatchSize, top, targets, tasks, broadcastLog, batchLog>>

\* handleRequest is entered on .../rpc/query or .../rpc/mutation
ReceiveHttp ==
    /\ hpc = "idle"
    /\ \E path \in {"query", "mutation"}, key \in Keys, params \in RawParams :
          LET known == IF path = "query" THEN key \in QueryNames
                       ELSE key \in MutationNames
          IN  /\ request' = [entry |-> "http", path |-> path, key |-> key,
                             params |-> params, withAuth |-> TRUE]
              /\ IF ~known
                 THEN /\ hpc' = "responded"
                      /\ response' = Throw(HTTPException(400, "unknown"))
                      /\ top' = top
                 ELSE /\ hpc' = "await"
                      /\ response' = response
                      /\ top' = Call(IF path = "query" THEN "execute"
                                     ELSE "mutation", key, params, TRUE)
    /\ UNCHANGED <<naming, store, raceVars, clientVars, maxBatchSize, targets, tasks, broadcastLog, batchLog>>

\* rpc.queries[key](params, request, withAuth) or rpc.mutations[key](...)
\* called by server code
ReceiveDirect ==
    /\ hpc = "idle"
    /\ \E path \in {"query", "mutation"}, params \in RawParams,
          withAuth \in BOOLEAN :
          \E key \in (IF path = "query" THEN QueryNames ELSE MutationNames) :
              /\ request' = [entry |-> "direct", path |-> path, key |-> key,
                             params |-> params, withAuth |-> withAuth]
              /\ top' = Call(IF path = "query" THEN "execute" ELSE "mutation",
                             key, params, withAuth)
    /\ hpc' = "await"
    /\ UNCHANGED <<naming, store, raceVars, clientVars, maxBatchSize, response, targets, tasks, broadcastLog, batchLog>>

\* def.authorization(parsed, request) settles
AuthorizationSettle ==
    /\ top.pc = "auth"
    /\ \E outcome \in AuthOutcomes : top' = AfterAuthorization(top, outcome)
    /\ UNCHANGED <<naming, store, raceVars, clientVars, maxBatchSize, request, hpc, response, targets, tasks,
                   broadcastLog, batchLog>>

\* def.query(parsed, request) or def.mutation(parsed, request) settles
HandlerSettle ==
    /\ top.pc = "handler"
    /\ \E ok \in BOOLEAN, result \in ResultsOf(top.mode) :
          /\ ~ok => result = CHOOSE r \in ResultsOf(top.mode) : TRUE
          /\ top' = AfterHandler(top, ok, result)
    /\ UNCHANGED <<naming, store, raceVars, clientVars, maxBatchSize, request, hpc, response, targets, tasks,
                   broadcastLog, batchLog>>

\* the mutation fn resumes with the handler's result: it starts the fan-out
\* and returns
MutationResume ==
    /\ top.pc = "handlerOk"
    /\ targets' = FanOutStart(mutations[top.name])
    /\ top' = AfterFanOutStart(top)
    /\ UNCHANGED <<naming, store, raceVars, clientVars, maxBatchSize, request, hpc, response, tasks, broadcastLog,
                   batchLog>>

\* the caller resumes with the settled executor promise
Respond ==
    /\ hpc = "await"
    /\ Settled(top)
    /\ response' = ResponseOf(request, top)
    /\ hpc' = "responded"
    /\ UNCHANGED <<naming, store, raceVars, clientVars, maxBatchSize, request, top, targets, tasks, broadcastLog,
                   batchLog>>

\* invalidateParamsFn(parsed, result) of target q settles
ComputeSettle(q) ==
    /\ targets[q].pc = "compute"
    /\ \/ /\ targets' = Resume(targets, q,
                Rejected([targets[q] EXCEPT !.computed = "failed"],
                         HTTPException(500, "compute")))
          /\ tasks' = tasks
       \/ \E queryParams \in RawParams :
             /\ targets[q].fn = "one"
             /\ targets' = Resume(targets, q,
                   [targets[q] EXCEPT !.pc = "invalidate", !.computed = "ok",
                                      !.queryParams = <<queryParams>>])
             /\ tasks' = [tasks EXCEPT ![q] = StartInvalidate(q, queryParams)]
       \/ \E queryParams \in ParamLists :
             /\ targets[q].fn = "list"
             /\ targets' = Resume(targets, q,
                   [targets[q] EXCEPT !.pc = "gather", !.computed = "ok",
                                      !.isArray = TRUE,
                                      !.queryParams = queryParams])
             /\ tasks' = [tasks EXCEPT ![q] = StartBatchInvalidate(q, queryParams)]
    /\ UNCHANGED <<naming, store, raceVars, clientVars, maxBatchSize, request, hpc, response, top, broadcastLog,
                   batchLog>>

\* def.query(parsed, request) settles in run i of target q; on success the
\* run calls socket.broadcast
TaskHandlerSettle(q, i) ==
    /\ tasks[q][i].pc = "handler"
    /\ \E ok \in BOOLEAN, result \in QueryResults :
          /\ ~ok => result = CHOOSE r \in QueryResults : TRUE
          /\ LET run == AfterHandler(tasks[q][i], ok, result)
             IN  /\ tasks' = [tasks EXCEPT ![q][i] = run]
                 /\ broadcastLog' =
                       IF run.pc = "broadcast"
                       THEN broadcastLog (+) SetToBag({BroadcastCall(<<q, i>>, run)})
                       ELSE broadcastLog
    /\ UNCHANGED <<naming, store, raceVars, clientVars, maxBatchSize, request, hpc, response, top, targets, batchLog>>

\* socket.broadcast(channel, 'update', result) settles in run i of target q
TaskBroadcastSettle(q, i) ==
    /\ tasks[q][i].pc = "broadcast"
    /\ \E ok \in BOOLEAN : tasks' = [tasks EXCEPT ![q][i] = AfterBroadcast(@, ok)]
    /\ UNCHANGED <<naming, store, raceVars, clientVars, maxBatchSize, request, hpc, response, top, targets,
                   broadcastLog, batchLog>>

\* the callback of a scalar target resumes with its settled invalidate run
InvalidateJoin(q) ==
    /\ targets[q].pc = "invalidate"
    /\ Settled(tasks[q][1])
    /\ targets' = Resume(targets, q,
          IF tasks[q][1].pc = "failed"
          THEN Rejected(targets[q], tasks[q][1].error)
          ELSE [targets[q] EXCEPT !.pc = "fulfilled"])
    /\ UNCHANGED <<naming, store, raceVars, clientVars, maxBatchSize, request, hpc, response, top, tasks,
                   broadcastLog, batchLog>>

BatchCall(q, broadcastBatch) == [target |-> q, items |-> broadcastBatch]

\* the callback of a list target resumes with all its batchInvalidate runs
\* settled: it groups the successful ones and calls socket.batchBroadcast on
\* every group
Gather(q) ==
    /\ targets[q].pc = "gather"
    /\ \A i \in 1..Len(tasks[q]) : Settled(tasks[q][i])
    /\ LET broadcasts == [i \in 1..Len(tasks[q]) |-> BroadcastOutcome(tasks[q][i])]
           toBroadcast == ToBroadcast(broadcasts)
       IN  /\ targets' = Resume(targets, q,
                 [targets[q] EXCEPT
                    !.pc = "dispatch",
                    !.allSuccess = \A i \in 1..Len(broadcasts) : broadcasts[i].success,
                    !.toBroadcast = toBroadcast,
                    !.chunkState = [c \in 1..Len(toBroadcast) |-> "pending"]])
           /\ batchLog' = batchLog (+)
                 [call \in {BatchCall(q, toBroadcast[c]) : c \in 1..Len(toBroadcast)}
                    |-> Cardinality({c \in 1..Len(toBroadcast) :
                                        BatchCall(q, toBroadcast[c]) = call})]
    /\ UNCHANGED <<naming, store, raceVars, clientVars, maxBatchSize, request, hpc, response, top, tasks, broadcastLog>>

\* socket.batchBroadcast(broadcastBatch) settles for group c of target q
BatchSettle(q, c) ==
    /\ targets[q].pc = "dispatch"
    /\ targets[q].chunkState[c] = "pending"
    /\ \E ok \in BOOLEAN :
          targets' = Resume(targets, q,
             [targets[q] EXCEPT
                !.chunkState[c] = IF ok THEN "ok" ELSE "failed",
                !.allBroadcastSuccess = @ /\ ok])
    /\ UNCHANGED <<naming, store, raceVars, clientVars, maxBatchSize, request, hpc, response, top, tasks,
                   broadcastLog, batchLog>>

\* the callback of a list target resumes with every group dispatched
DispatchJoin(q) ==
    /\ targets[q].pc = "dispatch"
    /\ \A c \in 1..Len(targets[q].chunkState) : targets[q].chunkState[c] # "pending"
    /\ targets' = Resume(targets, q, ListOutcome(targets[q]))
    /\ UNCHANGED <<naming, store, raceVars, clientVars, maxBatchSize, request, hpc, response, top, tasks,
                   broadcastLog, batchLog>>

Next ==
    \/ ReceiveOther
    \/ ReceiveHttp
    \/ ReceiveDirect
    \/ AuthorizationSettle
    \/ HandlerSettle
    \/ MutationResume
    \/ Respond
    \/ \E q \in QueryNames : ComputeSettle(q)
    \/ \E q \in QueryNames : InvalidateJoin(q)
    \/ \E q \in QueryNames : Gather(q)
    \/ \E q \in QueryNames : DispatchJoin(q)
    \/ \E q \in QueryNames : \E i \in 1..Len(tasks[q]) : TaskHandlerSettle(q, i)
    \/ \E q \in QueryNames : \E i \in 1..Len(tasks[q]) : TaskBroadcastSettle(q, i)
    \/ \E q \in QueryNames : \E c \in 1..Len(targets[q].chunkState) : BatchSettle(q, c)

Spec == Init /\ [][Next]_vars

\* the continuation of a settled promise is always run: the mutation fn
\* resumes once its handler has settled, its caller once the fn has settled.
\* Nothing is assumed of the handlers, of the computeTargetParams functions
\* or of the transport: they may never settle.
LiveSpec == Spec /\ WF_vars(MutationResume) /\ WF_vars(Respond)

\* the steps of the callback of target q
TargetStep(q) ==
    \/ ComputeSettle(q)
    \/ InvalidateJoin(q)
    \/ Gather(q)
    \/ DispatchJoin(q)
    \/ \E i \in 1..Len(tasks[q]) : TaskHandlerSettle(q, i)
    \/ \E i \in 1..Len(tasks[q]) : TaskBroadcastSettle(q, i)
    \/ \E c \in 1..Len(targets[q].chunkState) : BatchSettle(q, c)

(***************************************************************************)
(* Observations on a state, used by the properties below.                  *)
(***************************************************************************)
\* the number of socket.broadcast calls made by the run with this id
BroadcastsBy(id) ==
    LET calls == {call \in BagToSet(broadcastLog) : call.by = id}
    IN  BagCardinality([call \in calls |-> broadcastLog[call]])

\* the socket.batchBroadcast calls made for target q, and their number
BatchCallsOf(q) == {call \in BagToSet(batchLog) : call.target = q}
BatchCountOf(q) == BagCardinality([call \in BatchCallsOf(q) |-> batchLog[call]])

\* the schema of the run's definition rejects the run's raw params
Rejects(run) ==
    ~safeParse((IF run.mode = "mutation" THEN mutations[run.name]
                ELSE queries[run.name]).params, run.raw).success

\* the recomputation of a run (validation, then the query handler) succeeded
Recomputed(run) == run.handlerInvoked /\ run.value # "none"

\* the list branch of target q has grouped its elements and dispatched them
Dispatched(q) ==
    targets[q].isArray /\ targets[q].pc \in {"dispatch", "fulfilled", "rejected"}

Ceil(n, b) == (n + b - 1) \div b

\* the batchBroadcast item that publishes a recomputed run
ItemOf(run) ==
    [channel |-> getRpcChannelName(run.name, run.parsed), name |-> "update",
     data |-> run.value]

(***************************************************************************)
(* C1.  An executor run with authorization enabled on a definition that    *)
(* has an authorization predicate: when the predicate returned false or    *)
(* raised, the handler was not invoked and the run failed with status 401. *)
(* The source tests only whether the predicate raised.                     *)
(***************************************************************************)
C1_DeniedNeverRunsHandler ==
    (top.withAuth /\ top.authInvoked /\ top.authOutcome \in {"false", "raise"})
        => /\ ~top.handlerInvoked
           /\ top.pc = "failed"
           /\ top.error.status = 401

(***************************************************************************)
(* C2.  A query run (execute, invalidate or batchInvalidate) whose raw     *)
(* params the schema rejects never invokes the handler nor the             *)
(* authorization predicate, issues no broadcast, and fails with the        *)
(* validation error of status 400.                                         *)
(***************************************************************************)
RejectedCleanly(run) ==
    /\ ~run.handlerInvoked
    /\ ~run.authInvoked
    /\ run.pc = "failed"
    /\ run.error = HTTPException(400, "validation")

C2_InvalidParamsRejected ==
    /\ (top.mode = "execute" /\ Rejects(top))
          => /\ RejectedCleanly(top)
             /\ broadcastLog = EmptyBag
             /\ batchLog = EmptyBag
    /\ \A q \in QueryNames : \A i \in 1..Len(tasks[q]) :
          Rejects(tasks[q][i])
             => /\ tasks[q][i].mode \in {"invalidate", "batchInvalidate"}
                /\ RejectedCleanly(tasks[q][i])
                /\ BroadcastsBy(<<q, i>>) = 0

\* an invalidate run and a batchInvalidate run of one fan-out have both been
\* refused by their schema
C2_Witness ==
    /\ \E q \in QueryNames :
          /\ Len(tasks[q]) = 1
          /\ tasks[q][1].mode = "invalidate"
          /\ tasks[q][1].error.kind = "validation"
    /\ \E q \in QueryNames : \E i \in 1..Len(tasks[q]) :
          /\ tasks[q][i].mode = "batchInvalidate"
          /\ tasks[q][i].error.kind = "validation"

(***************************************************************************)
(* C3.  A list target with N successfully recomputed elements and          *)
(* transport limit B = maxBatchSize is dispatched in exactly ceil(N/B)     *)
(* batchBroadcast calls of at most B items each.  The reduce of the source *)
(* never opens a second group.                                             *)
(***************************************************************************)
Successful(q) == SelectSeq(tasks[q], LAMBDA run : run.pc = "done")

C3_ChunkedByMaxBatchSize ==
    \A q \in QueryNames :
        Dispatched(q)
            => /\ BatchCountOf(q) = Ceil(Len(Successful(q)), maxBatchSize)
               /\ \A call \in BatchCallsOf(q) : Len(call.items) <= maxBatchSize

(***************************************************************************)
(* C4.  batchInvalidate does not publish: no socket.broadcast call is ever *)
(* made by a batchInvalidate run.  The source makes one.                   *)
(***************************************************************************)
C4_BatchInvalidateNeverBroadcasts ==
    \A call \in BagToSet(broadcastLog) :
        tasks[call.by[1]][call.by[2]].mode # "batchInvalidate"

(***************************************************************************)
(* C5.  A mutation whose validation, authorization and handler succeeded   *)
(* never fails, returns exactly the handler's result, and its caller gets  *)
(* that result, in every state of the fan-out, failed or not.              *)
(***************************************************************************)
C5_MutationReturnsHandlerResult ==
    (top.mode = "mutation" /\ top.value # "none")
        => /\ top.pc \in {"handlerOk", "done"}
           /\ top.pc = "done" => top.returned = top.value
           /\ hpc = "responded" =>
                 IF request.entry = "direct"
                 THEN response.kind = "return" /\ response.data = top.value
                 ELSE /\ response.kind = "json"
                      /\ response.success = "true"
                      /\ response.error = "null"
                      /\ response.data = (IF top.value = "null" THEN "undefined"
                                          ELSE top.value)

\* the caller has its result although one target failed in
\* computeTargetParams and another in its broadcasts
C5_Witness ==
    /\ hpc = "responded"
    /\ response.success = "true"
    /\ response.data = "m1"
    /\ \E q \in QueryNames : targets[q].error.kind = "compute"
    /\ \E q \in QueryNames : targets[q].error.kind = "broadcastSome"

(***************************************************************************)
(* C6.  The fan-out never raises: the Promise.all of the fan-out is never  *)
(* rejected with nobody to observe it.  In the source every failure is     *)
(* rethrown by its callback and the Promise.all has no handler.            *)
(***************************************************************************)
C6_FanOutNeverRejects == FanOutPromise(targets) # "rejected"

(***************************************************************************)
(* C7.  Once the mutation handler has succeeded, the mutation fn returns   *)
(* and its caller resumes, whatever the fan-out does (a property of         *)
(* LiveSpec, which is fair to no step of the fan-out).                     *)
(***************************************************************************)
C7_ReturnsWithoutWaiting ==
    (top.mode = "mutation" /\ top.pc = "handlerOk")
        ~> (top.pc = "done" /\ hpc = "responded")

\* the caller has its result while a recomputation and a transport call of
\* the fan-out are still pending
C7_Witness ==
    /\ top.mode = "mutation"
    /\ top.pc = "done"
    /\ hpc = "responded"
    /\ FanOutPromise(targets) = "pending"
    /\ \E q \in QueryNames : \E i \in 1..Len(tasks[q]) : tasks[q][i].pc = "handler"
    /\ \E q \in QueryNames : \E i \in 1..Len(tasks[q]) : tasks[q][i].pc = "broadcast"

(***************************************************************************)
(* C8.  Failure isolation between targets: a callback is rejected only by  *)
(* a failure of its own steps, an unfinished callback can always take its  *)
(* next step whatever the other callbacks did, and a callback that is      *)
(* fulfilled has published every one of its recomputations (the one of a   *)
(* scalar target by broadcast, those of a list target by batchBroadcast).  *)
(***************************************************************************)
OwnFailure(q) ==
    \/ targets[q].computed = "failed"
    \/ \E i \in 1..Len(tasks[q]) : tasks[q][i].pc = "failed"
    \/ \E c \in 1..Len(targets[q].chunkState) : targets[q].chunkState[c] = "failed"

PublishedAll(q) ==
    IF targets[q].isArray
    THEN \A i \in 1..Len(tasks[q]) :
            \E call \in BatchCallsOf(q) : \E j \in 1..Len(call.items) :
                call.items[j] = ItemOf(tasks[q][i])
    ELSE BroadcastsBy(<<q, 1>>) = 1

C8_FailureIsolation ==
    \A q \in QueryNames :
        /\ targets[q].pc = "rejected" => OwnFailure(q)
        /\ (Started(targets[q]) /\ ~Finished(targets[q])) => ENABLED TargetStep(q)
        /\ (targets[q].pc = "fulfilled" /\ targets[q].computed = "ok")
              => PublishedAll(q)

\* one target failed in computeTargetParams, the other was recomputed and
\* published
C8_Witness ==
    \E q1 \in QueryNames, q2 \in QueryNames :
        /\ q1 # q2
        /\ targets[q1].pc = "rejected"
        /\ targets[q1].computed = "failed"
        /\ targets[q2].pc = "fulfilled"
        /\ targets[q2].computed = "ok"
        /\ Len(tasks[q2]) > 0
        /\ PublishedAll(q2)

(***************************************************************************)
(* C9.  The items handed to batchBroadcast for a list target are exactly   *)
(* the elements whose recomputation (validation and query handler)         *)
(* succeeded, in their order.  In the source an element whose own          *)
(* broadcast in batchInvalidate failed is left out as well.                *)
(***************************************************************************)
RECURSIVE Flatten(_)
Flatten(chunks) ==
    IF chunks = <<>> THEN <<>> ELSE Head(chunks) \o Flatten(Tail(chunks))

RecomputedItems(q) ==
    LET runs == SelectSeq(tasks[q], Recomputed)
    IN  [i \in 1..Len(runs) |-> ItemOf(runs[i])]

C9_BatchCoversRecomputed ==
    \A q \in QueryNames :
        Dispatched(q) => Flatten(targets[q].toBroadcast) = RecomputedItems(q)

(***************************************************************************)
(* C10.  As claimed: a target whose computeTargetParams returned a single  *)
(* parameter value has, once its callback has finished, exactly one        *)
(* broadcast call, on the channel of (target query, computed params), with *)
(* event "update" and the recomputed result, and no batchBroadcast call.   *)
(***************************************************************************)
C10_OneBroadcastOnComputedParams ==
    \A q \in QueryNames :
        (targets[q].pc \in {"fulfilled", "rejected"} /\ targets[q].computed = "ok"
         /\ ~targets[q].isArray)
            => /\ BatchCountOf(q) = 0
               /\ BroadcastsBy(<<q, 1>>) = 1
               /\ \A call \in BagToSet(broadcastLog) :
                     call.by = <<q, 1>>
                        => /\ call.channel =
                                getRpcChannelName(q, targets[q].queryParams[1])
                           /\ call.event = "update"
                           /\ call.data = tasks[q][1].value

(***************************************************************************)
(* C10, amended.  For a target whose computeTargetParams returned a single *)
(* parameter value: no batchBroadcast call is made for it; if the target   *)
(* query's schema accepts the value and the query handler succeeds, there  *)
(* is exactly one broadcast call, on the channel of (target query, parse   *)
(* result of the computed params), with event "update" and the handler's   *)
(* result; otherwise there is no broadcast call.                           *)
(***************************************************************************)
C10_OneBroadcastOnParsedParams ==
    \A q \in QueryNames :
        (targets[q].computed = "ok" /\ ~targets[q].isArray)
            => /\ BatchCountOf(q) = 0
               /\ IF Recomputed(tasks[q][1])
                  THEN /\ BroadcastsBy(<<q, 1>>) = 1
                       /\ \A call \in BagToSet(broadcastLog) :
                             call.by = <<q, 1>>
                                => /\ call.channel = getRpcChannelName(q,
                                         safeParse(queries[q].params,
                                                   targets[q].queryParams[1]).data)
                                   /\ call.event = "update"
                                   /\ call.data = tasks[q][1].value
                  ELSE BroadcastsBy(<<q, 1>>) = 0

\* the two scalar targets of createPost have each been published once, one
\* of them for computed params the schema changes when it parses them
C10_Witness ==
    /\ top.name = "createPost"
    /\ \A q \in QueryNames :
          /\ targets[q].pc = "fulfilled"
          /\ ~targets[q].isArray
          /\ BroadcastsBy(<<q, 1>>) = 1
    /\ \E q \in QueryNames : targets[q].queryParams = <<IdObjectExtra>>

(***************************************************************************)
(* getRpcChannelName as a function of its arguments: two calls with the    *)
(* same query name are put side by side.  The parameter values are drawn   *)
(* from objects in every insertion order, arrays, objects keyed like       *)
(* arrays, and one more level of nesting.                                  *)
(***************************************************************************)
\* longest array among the parameter values
MaxArrayLen == 2

IndexKeys == <<"0", "1", "2">>

\* the array with these elements
ArrayOf(elems) == Arr([i \in 1..Len(elems) |-> Prop(IndexKeys[i], elems[i])])

ArraysOver(vals) ==
    {ArrayOf(elems) : elems \in UNION {[1..n -> vals] : n \in 0..MaxArrayLen}}

\* the objects with at most two of these keys, in every insertion order
ObjectsOver(keys, vals) ==
    {Obj(<<>>)}
    \cup {Obj(<<Prop(k, v)>>) : k \in keys, v \in vals}
    \cup {Obj(<<Prop(k[1], v[1]), Prop(k[2], v[2])>>) :
             k \in {kk \in keys \X keys : kk[1] # kk[2]}, v \in vals \X vals}

LeafValues == {Undef, Num(1), Num(2)}

InnerValues ==
    LeafValues \cup ObjectsOver({"a", "b"}, LeafValues)
               \cup ObjectsOver({"0", "1"}, LeafValues)
               \cup ArraysOver(LeafValues)

ElementValues ==
    {ArrayOf(<<Num(1)>>), Obj(<<Prop("0", Num(1))>>),
     Obj(<<Prop("a", Num(1)), Prop("b", Num(2))>>),
     Obj(<<Prop("b", Num(2)), Prop("a", Num(1))>>)}

NamedParams ==
    {Undef}
    \cup {Obj(<<Prop("a", v)>>) : v \in InnerValues}
    \cup {Obj(<<Prop("a", v), Prop("b", Num(1))>>) : v \in InnerValues}
    \cup {Obj(<<Prop("b", Num(1)), Prop("a", v)>>) : v \in InnerValues}
    \cup ArraysOver(ElementValues)

NamingInit ==
    /\ store = 0
    /\ RaceIdle
    /\ ClientIdle
    /\ maxBatchSize = DefaultMaxBatchSize
    /\ request = NoRequest
    /\ hpc = "idle"
    /\ response = NoResponse
    /\ top = NoRun
    /\ targets = [q \in QueryNames |-> NoTarget]
    /\ tasks = [q \in QueryNames |-> <<>>]
    /\ broadcastLog = EmptyBag
    /\ batchLog = EmptyBag
    /\ \E query \in QueryNames, p1 \in NamedParams, p2 \in NamedParams :
          naming = [NoNaming EXCEPT !.pc = "called", !.query = query,
                                    !.p1 = p1, !.p2 = p2]

\* both calls return
NameChannels ==
    /\ naming.pc = "called"
    /\ naming' = [naming EXCEPT
          !.pc = "named",
          !.s1 = stableStringify(naming.p1),
          !.s2 = stableStringify(naming.p2),
          !.c1 = getRpcChannelName(naming.query, naming.p1),
          !.c2 = getRpcChannelName(naming.query, naming.p2)]
    /\ UNCHANGED <<serverVars, store, raceVars, clientVars>>

NamingSpec == NamingInit /\ [][NameChannels]_vars

\* equality of two values as JavaScript data: objects as sets of key/value
\* pairs whatever the insertion order, arrays position by position
RECURSIVE DeepEqual(_, _)
DeepEqual(v, w) ==
    /\ v.t = w.t
    /\ v.n = w.n
    /\ Len(v.kv) = Len(w.kv)
    /\ OwnKeys(v) = OwnKeys(w)
    /\ \A k \in OwnKeys(v) : DeepEqual(Get(v, k), Get(w, k))

\* the insertion orders of v and w differ somewhere, at any depth
RECURSIVE OrderDiffers(_, _)
OrderDiffers(v, w) ==
    \/ [i \in 1..Len(v.kv) |-> v.kv[i].k] # [i \in 1..Len(w.kv) |-> w.kv[i].k]
    \/ \E k \in OwnKeys(v) \cap OwnKeys(w) : OrderDiffers(Get(v, k), Get(w, k))

(***************************************************************************)
(* C11.  Two parameter objects that are deep-equal as key/value sets,      *)
(* whatever the insertion order of their keys at any depth, get the same   *)
(* channel name.                                                           *)
(***************************************************************************)
C11_KeyOrderIrrelevant ==
    (naming.pc = "named" /\ DeepEqual(naming.p1, naming.p2))
        => naming.c1 = naming.c2

\* two deep-equal values whose keys were inserted in different orders, in
\* the outer object and in a nested one, have been named
C11_Witness ==
    /\ naming.pc = "named"
    /\ DeepEqual(naming.p1, naming.p2)
    /\ [i \in 1..Len(naming.p1.kv) |-> naming.p1.kv[i].k] = <<"a", "b">>
    /\ [i \in 1..Len(naming.p2.kv) |-> naming.p2.kv[i].k] = <<"b", "a">>
    /\ OrderDiffers(Get(naming.p1, "a"), Get(naming.p2, "a"))
    /\ naming.c1 = naming.c2

\* w holds the elements of the array v in another sequence
IsReorder(v, w) ==
    /\ v.t = "array" /\ w.t = "array"
    /\ Len(v.kv) = Len(w.kv)
    /\ \E f \in [1..Len(v.kv) -> 1..Len(v.kv)] :
          /\ \A i, j \in 1..Len(v.kv) : f[i] = f[j] => i = j
          /\ \A i \in 1..Len(v.kv) : w.kv[i].v = v.kv[f[i]].v
    /\ \E i \in 1..Len(v.kv) : ~DeepEqual(v.kv[i].v, w.kv[i].v)

\* p2 is p1 with one array reordered, the parameter itself or the value of
\* one of its keys
Reordered(p1, p2) ==
    \/ IsReorder(p1, p2)
    \/ /\ p1.t = "object" /\ p2.t = "object"
       /\ OwnKeys(p1) = OwnKeys(p2)
       /\ \E k \in OwnKeys(p1) :
             /\ IsReorder(Get(p1, k), Get(p2, k))
             /\ \A l \in OwnKeys(p1) \ {k} : DeepEqual(Get(p1, l), Get(p2, l))

(***************************************************************************)
(* C12.  Reordering the elements of an array-valued parameter, at top      *)
(* level or nested in an object, into a different sequence changes the     *)
(* canonical string and the channel name.                                  *)
(***************************************************************************)
C12_ArrayOrderMatters ==
    (naming.pc = "named" /\ Reordered(naming.p1, naming.p2))
        => (naming.s1 # naming.s2 /\ naming.c1 # naming.c2)

\* v holds no undefined at any depth, as every value read from a JSON body
RECURSIVE IsJsonValue(_)
IsJsonValue(v) ==
    /\ v.t # "undefined"
    /\ \A k \in OwnKeys(v) : IsJsonValue(Get(v, k))

\* p1 and p2 are objects read from JSON that differ in the value stored
\* under some key
ValueDiffers(p1, p2) ==
    /\ p1.t = "object" /\ p2.t = "object"
    /\ IsJsonValue(p1) /\ IsJsonValue(p2)
    /\ \E k \in OwnKeys(p1) \cap OwnKeys(p2) :
          ~DeepEqual(Get(p1, k), Get(p2, k))

(***************************************************************************)
(* C13.  For a fixed query name, two parameter values that differ in the   *)
(* value stored under some key get different channel names.                *)
(***************************************************************************)
C13_ValueChangeChangesName ==
    (naming.pc = "named" /\ ValueDiffers(naming.p1, naming.p2))
        => naming.c1 # naming.c2

(***************************************************************************)
(* The channel of a query as its three users name it.                      *)
(***************************************************************************)
\* the channel useLiveQuery(key, params) subscribes to
useLiveQueryChannel(key, params) == getRpcChannelName(key, params)

\* the channel fn.invalidate (mode "invalidate") or fn.batchInvalidate (mode
\* "batchInvalidate") of query name publishes on when it is called with
\* these raw params and the handler succeeds
PublishChannel(mode, name, params) ==
    AfterHandler(Call(mode, name, params, FALSE), TRUE,
                 CHOOSE r \in QueryResults : TRUE).channel

(***************************************************************************)
(* C14.  The channel field of a successful query response is the channel   *)
(* on which invalidate and batchInvalidate of the same query with the same *)
(* raw params publish, and the channel useLiveQuery subscribes to for the  *)
(* same key and params, also when the schema's parse result differs from   *)
(* the raw params.                                                         *)
(***************************************************************************)
C14_ResponseChannelIsUpdateChannel ==
    (/\ hpc = "responded"
     /\ request.entry = "http"
     /\ request.path = "query"
     /\ response.kind = "json")
        => /\ response.channel =
                 PublishChannel("invalidate", request.key, request.params)
           /\ response.channel =
                 PublishChannel("batchInvalidate", request.key, request.params)
           /\ response.channel =
                 useLiveQueryChannel(request.key, request.params)

\* the key of the request is not registered for the path of the request
UnknownKey(req) ==
    /\ req.entry = "http"
    /\ \/ req.path = "query" /\ req.key \notin QueryNames
       \/ req.path = "mutation" /\ req.key \notin MutationNames

\* nothing caller-supplied has been invoked and nothing has been published
NothingInvoked ==
    /\ ~top.authInvoked /\ ~top.handlerInvoked
    /\ \A q \in QueryNames : ~Started(targets[q]) /\ tasks[q] = <<>>
    /\ broadcastLog = EmptyBag
    /\ batchLog = EmptyBag

InvalidateRuns ==
    {<<q, i>> \in QueryNames \X (1..MaxList + 1) :
        i <= Len(tasks[q]) /\ tasks[q][i].mode = "invalidate"}

(***************************************************************************)
(* C17.  A run of invalidate whose validation and query handler succeeded  *)
(* makes exactly one transport call, broadcast(channelName(name, parsed    *)
(* params), "update", result).  When that call fails the run fails with    *)
(* the broadcast error of status 500; when it succeeds the run returns the *)
(* recomputed handler result.                                              *)
(***************************************************************************)
C17_InvalidateBroadcastsOnce ==
    \A id \in InvalidateRuns :
        LET run == tasks[id[1]][id[2]]
        IN  /\ Recomputed(run) =>
                /\ BroadcastsBy(id) = 1
                /\ [by |-> id,
                    channel |-> getRpcChannelName(run.name, run.parsed),
                    event |-> "update", data |-> run.value]
                       \in BagToSet(broadcastLog)
            /\ run.transport = "failed" =>
                /\ run.pc = "failed"
                /\ run.error = HTTPException(500, "broadcast")
                /\ run.returned = "none"
            /\ run.transport = "ok" =>
                /\ run.pc = "done"
                /\ run.returned = run.value
                /\ run.value \in QueryResults

\* an invalidate run has recomputed its query, made its one transport call
\* and failed because the call failed
C17_Witness ==
    \E id \in InvalidateRuns :
        LET run == tasks[id[1]][id[2]]
        IN  /\ Recomputed(run)
            /\ BroadcastsBy(id) = 1
            /\ run.transport = "failed"
            /\ run.error.status = 500

(***************************************************************************)
(* C16.  The status of every answer of the dispatcher: unknown definition  *)
(* and validation failure give 400, authorization failure (the predicate   *)
(* returned false or raised) gives 401, a handler failure gives 500 with   *)
(* the handler's error as cause, a failed single broadcast gives 500; a    *)
(* successful query gives {data, channel, error: null} and a successful    *)
(* mutation {success: true, data, error: null}.  The handler's error is    *)
(* rethrown as it is, without a status of its own: the status it is        *)
(* answered with is the framework's, and only its propagation is stated.   *)
(***************************************************************************)
C16_FailureMapping ==
    /\ (hpc = "responded" /\ request.entry = "http"
            /\ request.path \in {"query", "mutation"}) =>
          /\ UnknownKey(request) =>
                (response.kind = "throw" /\ response.status = 400)
          /\ (~UnknownKey(request) /\ Rejects(top)) =>
                (response.kind = "throw" /\ response.status = 400)
          /\ top.authOutcome \in {"false", "raise"} =>
                (response.kind = "throw" /\ response.status = 401)
          /\ (top.handlerInvoked /\ top.value = "none") =>
                /\ response.kind = "throw"
                /\ response.error = "handler"
          /\ (top.pc = "done" /\ request.path = "query") =>
                /\ response.kind = "json"
                /\ response.data = top.value
                /\ response.channel # NoChannel
                /\ response.error = "null"
                /\ top.authOutcome \in {"none", "true"}
          /\ (top.pc = "done" /\ request.path = "mutation") =>
                /\ response.kind = "json"
                /\ response.success = "true"
                /\ response.data =
                      (IF top.value = "null" THEN "undefined" ELSE top.value)
                /\ response.error = "null"
                /\ top.authOutcome \in {"none", "true"}
    /\ \A id \in InvalidateRuns :
          tasks[id[1]][id[2]].transport = "failed" =>
              tasks[id[1]][id[2]].error.status = 500

\* the runs of fn.invalidate and fn.batchInvalidate
TaskRuns ==
    {<<q, i>> \in QueryNames \X (1..MaxList + 1) : i <= Len(tasks[q])}

(***************************************************************************)
(* C18.  Recomputation during invalidation runs without authorization:     *)
(* invalidate and batchInvalidate never invoke the authorization predicate *)
(* of the target query, so a target query that has a predicate is          *)
(* recomputed whenever its params are valid, and published.                *)
(***************************************************************************)
C18_InvalidationSkipsAuthorization ==
    \A id \in TaskRuns :
        LET run == tasks[id[1]][id[2]]
        IN  /\ run.mode \in {"invalidate", "batchInvalidate"}
            /\ ~run.authInvoked
            /\ run.authOutcome = "none"
            /\ run.pc # "auth"
            /\ ~Rejects(run) => run.handlerInvoked
            /\ (run.mode = "invalidate" /\ Recomputed(run)) =>
                    BroadcastsBy(id) = 1

\* a query that has an authorization predicate has been recomputed and
\* published by fn.invalidate without a call of the predicate
C18_Witness ==
    \E id \in TaskRuns :
        LET run == tasks[id[1]][id[2]]
        IN  /\ run.mode = "invalidate"
            /\ HasAuthorization(run.mode, run.name)
            /\ run.pc = "done"
            /\ ~run.authInvoked
            /\ BroadcastsBy(id) = 1

\* no step of the fan-out has been taken
FanOutNotStarted ==
    /\ \A q \in QueryNames :
          /\ ~Started(targets[q])
          /\ ~targets[q].computeInvoked
          /\ tasks[q] = <<>>
    /\ broadcastLog = EmptyBag
    /\ batchLog = EmptyBag

(***************************************************************************)
(* C19.  A mutation execution whose validation, authorization (the         *)
(* predicate returned false or raised) or handler failed never starts the  *)
(* fan-out: no computeTargetParams function is invoked, no target query is *)
(* recomputed, nothing is published; and when validation or authorization  *)
(* failed the mutation handler itself was never invoked.                   *)
(***************************************************************************)
C19_FailedMutationStartsNoFanOut ==
    top.mode = "mutation" =>
        LET invalid == Rejects(top)
            denied == top.authOutcome \in {"false", "raise"}
            handlerFailed == top.pc = "failed" /\ top.error = HandlerThrown
        IN  /\ (invalid \/ denied \/ handlerFailed) => FanOutNotStarted
            /\ (invalid \/ denied) => ~top.handlerInvoked

(***************************************************************************)
(* C20.  A request whose path ends with neither suffix is rejected: it is  *)
(* answered with an error response, and no query handler, mutation handler *)
(* or broadcast is invoked for it.                                         *)
(***************************************************************************)
C20_OtherPathRejected ==
    (request.entry = "http" /\ request.path = "other")
        => /\ hpc = "responded"
           /\ response.kind \in {"json", "throw"}
           /\ response.status >= 400
           /\ NothingInvoked

\* some step of the fan-out has been taken
FanOutStep == ~FanOutNotStarted

(***************************************************************************)
(* C21.  Ordering within one mutation request: every step of the fan-out   *)
(* (a computeTargetParams call, a recomputation, a broadcast, a            *)
(* batchBroadcast) comes after the mutation handler has completed          *)
(* successfully, and every broadcast item of a target is issued after the  *)
(* target's query handler has returned and carries the returned value.     *)
(***************************************************************************)
C21_FanOutAfterHandler ==
    /\ FanOutStep =>
          /\ top.mode = "mutation"
          /\ top.handlerInvoked
          /\ top.value \in MutationResults
          /\ top.pc = "done"
    /\ \A call \in BagToSet(broadcastLog) :
          /\ call.by \in TaskRuns
          /\ LET run == tasks[call.by[1]][call.by[2]]
             IN  /\ Recomputed(run)
                 /\ run.value \in QueryResults
                 /\ call.data = run.value
                 /\ call.event = "update"
    /\ \A call \in BagToSet(batchLog) :
          \A k \in 1..Len(call.items) :
              \E i \in 1..Len(tasks[call.target]) :
                  LET run == tasks[call.target][i]
                  IN  /\ Recomputed(run)
                      /\ run.value \in QueryResults
                      /\ call.items[k] = ItemOf(run)

\* a mutation has published by broadcast and by batchBroadcast
C21_Witness ==
    /\ top.mode = "mutation"
    /\ top.value \in MutationResults
    /\ broadcastLog # EmptyBag
    /\ batchLog # EmptyBag
    /\ \E q \in QueryNames : targets[q].computeInvoked /\ ~targets[q].isArray
                                /\ tasks[q] # <<>>

\* the number of socket.batchBroadcast calls made for target q with exactly
\* these items
BatchCallCount(q, items) ==
    IF BatchCall(q, items) \in BagToSet(batchLog)
    THEN batchLog[BatchCall(q, items)] ELSE 0

RECURSIVE ItemCount(_)
ItemCount(calls) ==
    IF calls = {} THEN 0
    ELSE LET call == CHOOSE c \in calls : TRUE
         IN  batchLog[call] * Len(call.items) + ItemCount(calls \ {call})

\* the number of socket.broadcast calls made by the first n runs of target q
RECURSIVE BroadcastCount(_, _)
BroadcastCount(q, n) ==
    IF n = 0 THEN 0 ELSE BroadcastsBy(<<q, n>>) + BroadcastCount(q, n - 1)

\* the "update" deliveries issued for target q, by broadcast and as items of
\* batchBroadcast calls
Deliveries(q) == BroadcastCount(q, Len(tasks[q])) + ItemCount(BatchCallsOf(q))

(***************************************************************************)
(* C23.  For a list-valued target every element whose recomputation        *)
(* succeeded is published exactly once per mutation, counting broadcast    *)
(* calls and batchBroadcast items together: once the callback of the       *)
(* target has finished, there are as many deliveries as recomputed         *)
(* elements.  In the source batchInvalidate publishes the element by       *)
(* broadcast and the callback publishes it again in batchBroadcast.        *)
(***************************************************************************)
C23_ElementPublishedOnce ==
    \A q \in QueryNames :
        (targets[q].isArray /\ targets[q].pc \in {"fulfilled", "rejected"})
            => Deliveries(q) = Len(SelectSeq(tasks[q], Recomputed))

(***************************************************************************)
(* Two mutation requests served concurrently.  Both invalidate the query   *)
(* getPosts with the same computed params, hence the same channel; the     *)
(* callback of that one entry of invalidateQueries is followed in each     *)
(* request.  The handlers work on shared data: a mutation handler that     *)
(* succeeds applies its change, a query handler evaluates the data at some *)
(* moment between its call and the settling of its promise.                *)
(***************************************************************************)
ServerIdle ==
    /\ maxBatchSize = DefaultMaxBatchSize
    /\ request = NoRequest
    /\ hpc = "idle"
    /\ response = NoResponse
    /\ top = NoRun
    /\ targets = [q \in QueryNames |-> NoTarget]
    /\ tasks = [q \in QueryNames |-> <<>>]
    /\ broadcastLog = EmptyBag
    /\ batchLog = EmptyBag

\* the result of def.query on the data after this number of mutations
QueryOn(version) == <<"r0", "r1", "r2", "r3">>[version + 1]

\* the mutations whose invalidateQueries entry for getPosts computes one
\* parameter value, with params their schema accepts
RaceQuery == "getPosts"
RaceMutations == {"createPost", "deleteAllPosts"}
RaceParams(name) == IF name = "createPost" THEN IdObject ELSE Undef

RaceInit ==
    /\ ServerIdle
    /\ naming = NoNaming
    /\ ClientIdle
    /\ store = 0
    /\ channelLog = <<>>
    /\ \E names \in [Sessions -> RaceMutations] :
          sessions = [m \in Sessions |->
             [NoSession EXCEPT
                !.name = names[m],
                !.run = Call("mutation", names[m], RaceParams(names[m]), TRUE)]]

\* def.authorization(parsed, request) settles in request m
RaceAuthorizationSettle(m) ==
    /\ sessions[m].run.pc = "auth"
    /\ \E outcome \in AuthOutcomes :
          sessions' = [sessions EXCEPT ![m].run = AfterAuthorization(@, outcome)]
    /\ UNCHANGED <<serverVars, naming, clientVars, store, channelLog>>

\* def.mutation(parsed, request) settles in request m; on success its change
\* is in the data
RaceHandlerSettle(m) ==
    /\ sessions[m].run.pc = "handler"
    /\ \E ok \in BOOLEAN :
          /\ sessions' = [sessions EXCEPT ![m].run = AfterHandler(@, ok, "m1")]
          /\ store' = IF ok THEN store + 1 ELSE store
    /\ UNCHANGED <<serverVars, naming, clientVars, channelLog>>

\* the mutation fn of request m resumes, starts the fan-out and returns
RaceMutationResume(m) ==
    /\ sessions[m].run.pc = "handlerOk"
    /\ sessions' = [sessions EXCEPT
          ![m].run = AfterFanOutStart(@),
          ![m].target = FanOutStart(mutations[sessions[m].name])[RaceQuery]]
    /\ UNCHANGED <<serverVars, naming, clientVars, store, channelLog>>

\* invalidateParamsFn(parsed, result) settles in request m
RaceComputeSettle(m) ==
    /\ sessions[m].target.pc = "compute"
    /\ \/ sessions' = [sessions EXCEPT
             ![m].target = Rejected([@ EXCEPT !.computed = "failed"],
                                    HTTPException(500, "compute"))]
       \/ sessions' = [sessions EXCEPT
             ![m].target = [@ EXCEPT !.pc = "invalidate", !.computed = "ok",
                                     !.queryParams = <<Undef>>],
             ![m].task = StartInvalidate(RaceQuery, Undef)[1]]
    /\ UNCHANGED <<serverVars, naming, clientVars, store, channelLog>>

\* def.query(parsed, request), called by fn.invalidate of request m,
\* evaluates the data
RaceQueryRead(m) ==
    /\ sessions[m].task.pc = "handler"
    /\ sessions[m].read = 0
    /\ sessions' = [sessions EXCEPT ![m].read = store]
    /\ UNCHANGED <<serverVars, naming, clientVars, store, channelLog>>

\* the promise of def.query settles in request m; on success fn.invalidate
\* calls socket.broadcast
RaceQuerySettle(m) ==
    /\ sessions[m].task.pc = "handler"
    /\ sessions[m].read > 0
    /\ \E ok \in BOOLEAN :
          LET run == AfterHandler(sessions[m].task, ok, QueryOn(sessions[m].read))
          IN  /\ sessions' = [sessions EXCEPT ![m].task = run]
              /\ channelLog' = IF run.pc = "broadcast"
                               THEN Append(channelLog, BroadcastCall(m, run))
                               ELSE channelLog
    /\ UNCHANGED <<serverVars, naming, clientVars, store>>

\* socket.broadcast(channel, 'update', result) settles in request m
RaceBroadcastSettle(m) ==
    /\ sessions[m].task.pc = "broadcast"
    /\ \E ok \in BOOLEAN :
          sessions' = [sessions EXCEPT ![m].task = AfterBroadcast(@, ok)]
    /\ UNCHANGED <<serverVars, naming, clientVars, store, channelLog>>

\* the callback of request m resumes with its settled invalidate run
RaceInvalidateJoin(m) ==
    /\ sessions[m].target.pc = "invalidate"
    /\ Settled(sessions[m].task)
    /\ sessions' = [sessions EXCEPT
          ![m].target = IF sessions[m].task.pc = "failed"
                        THEN Rejected(@, sessions[m].task.error)
                        ELSE [@ EXCEPT !.pc = "fulfilled"]]
    /\ UNCHANGED <<serverVars, naming, clientVars, store, channelLog>>

RaceNext ==
    \E m \in Sessions :
        \/ RaceAuthorizationSettle(m)
        \/ RaceHandlerSettle(m)
        \/ RaceMutationResume(m)
        \/ RaceComputeSettle(m)
        \/ RaceQueryRead(m)
        \/ RaceQuerySettle(m)
        \/ RaceBroadcastSettle(m)
        \/ RaceInvalidateJoin(m)

RaceSpec == RaceInit /\ [][RaceNext]_vars

\* both requests have finished their fan-out and published their update
BothPublished == \A m \in Sessions : sessions[m].target.pc = "fulfilled"

(***************************************************************************)
(* C24.  Two mutation requests that run concurrently and invalidate the    *)
(* same query channel: once both fan-outs have finished, the last payload  *)
(* published on the channel is the result of the query on the final data.  *)
(***************************************************************************)
C24_LastPublishedIsFinal ==
    BothPublished =>
        /\ \A i \in 1..Len(channelLog) :
              channelLog[i].channel = getRpcChannelName(RaceQuery, Undef)
        /\ channelLog[Len(channelLog)].data = QueryOn(store)

(***************************************************************************)
(* One useLiveQuery(key, params) on the client.  Its effect issues the     *)
(* initial fetch with callRPC and subscribes to the channel; the response  *)
(* of the fetch and the "update" payloads of the subscription reach the    *)
(* hook in any order.  The server answers the fetch in one step; every     *)
(* mutation on the server publishes the new result on the hook's channel.  *)
(***************************************************************************)
\* the number of updates published while the hook is mounted
MaxUpdates == 2

ClientInit ==
    /\ ServerIdle
    /\ naming = NoNaming
    /\ RaceIdle
    /\ store = 0
    /\ ClientIdle

\* the effect runs: callRPC("query", key, params) is called, its callbacks
\* are attached and socketFn subscribes to the channel
Mount ==
    /\ ~hook.mounted
    /\ fetch.pc = "none"
    /\ \E key \in QueryNames, params \in RawParams :
          hook' = [hook EXCEPT !.mounted = TRUE, !.key = key, !.params = params,
                               !.channel = useLiveQueryChannel(key, params),
                               !.subscribed = TRUE]
    /\ fetch' = [fetch EXCEPT !.pc = "sent"]
    /\ UNCHANGED <<serverVars, naming, raceVars, store, inbox>>

\* the run of the query fn for the hook's request, to its end
ServedRun(key, params, outcome, ok) ==
    LET called == Call("execute", key, params, TRUE)
        authorized == IF called.pc = "auth"
                      THEN AfterAuthorization(called, outcome) ELSE called
    IN  IF authorized.pc = "handler"
        THEN AfterHandler(authorized, ok, QueryOn(store))
        ELSE authorized

\* handleRequest serves the fetch on the data as they are
ServerAnswer ==
    /\ fetch.pc = "sent"
    /\ \E outcome \in AuthOutcomes, ok \in BOOLEAN :
          fetch' = [pc |-> "answered",
                    response |-> ResponseOf(
                       [entry |-> "http", path |-> "query", key |-> hook.key,
                        params |-> hook.params, withAuth |-> TRUE],
                       ServedRun(hook.key, hook.params, outcome, ok))]
    /\ UNCHANGED <<serverVars, naming, raceVars, store, hook, inbox>>

\* a mutation changes the data and its fan-out publishes the new result on
\* the hook's channel
Publish ==
    /\ hook.subscribed
    /\ store < MaxUpdates
    /\ store' = store + 1
    /\ inbox' = Append(inbox, QueryOn(store + 1))
    /\ UNCHANGED <<serverVars, naming, raceVars, hook, fetch>>

\* the subscription callback: setData(payload)
Deliver ==
    /\ hook.subscribed
    /\ inbox # <<>>
    /\ hook' = [hook EXCEPT !.data = Head(inbox), !.dataFrom = "live",
                            !.liveSeen = TRUE]
    /\ inbox' = Tail(inbox)
    /\ UNCHANGED <<serverVars, naming, raceVars, store, fetch>>

\* the callbacks attached to callRPC: setData(initialData.data) and
\* setIsLoading(false), or setError(err) and setIsLoading(false)
AfterFetch(h, res) ==
    IF res.kind = "json"
    THEN [h EXCEPT !.data = res.data, !.dataFrom = "fetch", !.isLoading = FALSE]
    ELSE [h EXCEPT !.error = "Error", !.isLoading = FALSE]

\* the callRPC promise settles and its callback runs
FetchSettle ==
    /\ fetch.pc = "answered"
    /\ hook' = AfterFetch(hook, fetch.response)
    /\ fetch' = [fetch EXCEPT !.pc = "settled"]
    /\ UNCHANGED <<serverVars, naming, raceVars, store, inbox>>

\* the cleanup of the effect: unsub()
Unmount ==
    /\ hook.subscribed
    /\ hook' = [hook EXCEPT !.subscribed = FALSE]
    /\ UNCHANGED <<serverVars, naming, raceVars, store, fetch, inbox>>

ClientNext ==
    \/ Mount
    \/ ServerAnswer
    \/ Publish
    \/ Deliver
    \/ FetchSettle
    \/ Unmount

ClientSpec == ClientInit /\ [][ClientNext]_vars

(***************************************************************************)
(* C25.  In useLiveQuery, once data has been set from a live "update"      *)
(* payload, it is never afterwards overwritten by the response of the      *)
(* initial fetch of the same effect: after a live payload the data of the  *)
(* hook always come from a live payload.                                   *)
(***************************************************************************)
C25_FetchNeverOverwritesLive ==
    hook.liveSeen => hook.dataFrom = "live"

\* the object whose keys are the indices of the array a, with a's elements
IndexObjectOf(a) == Obj(a.kv)

\* p2 is p1 with one array, the parameter itself or the value of one of its
\* keys, replaced by the object keyed by the array's indices
ArrayAsObject(p1, p2) ==
    \/ p1.t = "array" /\ p2 = IndexObjectOf(p1)
    \/ /\ p1.t = "object" /\ p2.t = "object"
       /\ InsertionKeys(p1) = InsertionKeys(p2)
       /\ \E k \in OwnKeys(p1) :
             /\ Get(p1, k).t = "array"
             /\ Get(p2, k) = IndexObjectOf(Get(p1, k))
             /\ \A l \in OwnKeys(p1) \ {k} : Get(p1, l) = Get(p2, l)

(***************************************************************************)
(* C26.  The canonical form tells arrays from objects: an array and the    *)
(* object whose keys are the array's indices, with the same elements, have *)
(* different canonical strings, and two parameters that differ in this     *)
(* only have different channel names.                                      *)
(***************************************************************************)
C26_ArraysDifferFromObjects ==
    (naming.pc = "named" /\ ArrayAsObject(naming.p1, naming.p2))
        => (naming.s1 # naming.s2 /\ naming.c1 # naming.c2)

====
